---- MODULE Spec2Model ----
(***************************************************************************)
(* Model of the cricgeo "geo" application: the relational schema declared  *)
(* in geo/models/cric.py (and the older geo/models.py), the storage        *)
(* engine's enforcement of its unique / foreign-key / on_delete rules, and *)
(* the seed_stadiums management command.                                   *)
(*                                                                         *)
(* Coordinates are fixed-point integers in units of 1e-4 degree, so that   *)
(* 51.5281 is 515281 and the seed's delta 0.0003 is 3.                     *)
(***************************************************************************)
EXTENDS Integers, Sequences, FiniteSets, TLC

VARIABLES
    schema,      \* which module "geo.models" resolves to in the build
    db,          \* table name -> set of stored rows
    nextId,      \* next auto-increment primary key
    ops,         \* number of successful direct inserts so far
    result,      \* outcome of the last direct insert or delete
    pc,          \* position of the seed command
    idx,         \* index in stadiums_data of the venue being processed
    cur,         \* the Stadium row get_or_create returned in this iteration
    stdout,      \* messages written by the current / last seed run
    log          \* one entry per seed run started: how it ended, what it inserted

vars == <<schema, db, nextId, ops, result, pc, idx, cur, stdout, log>>
seedVars == <<pc, idx, cur, stdout, log>>

----------------------------------------------------------------------------
(* Bounds *)

MaxOps == 4
MaxRuns == 2
MaxKey == 2
MaxAdminOps == 2

----------------------------------------------------------------------------
(* Schema *)

NULL == 0
NoField == "<no such field>"
LEGACY == "models.py"
CRIC == "models/cric.py"

Tables ==
    {"Stadium", "StadiumFeature", "Pitch", "PitchSnapshot", "SoilSample",
     "SensorDevice", "SensorReading", "SatelliteImage", "CameraImage",
     "Team", "Player", "Match", "Match_teams", "Inning", "Over", "Delivery",
     "PlayerTrackPoint", "PitchMetric", "PitchAnalysis"}

EmptyDb == [t \in Tables |-> {}]

Ids(rows) == {r.id : r \in rows}

Insert(d, t, row) == [d EXCEPT ![t] = @ \cup {row}]

\* An empty string is what a CharField/SlugField without default stores.
DefaultSlug(sch) == IF sch = CRIC THEN "" ELSE NoField

Point(x, y) == <<x, y>>

Polygon(ring) == ring

\* The centre of the polygon's envelope.
MinOf(S) == CHOOSE m \in S : \A x \in S : m <= x
MaxOf(S) == CHOOSE m \in S : \A x \in S : m >= x

Xs(poly) == {poly[i][1] : i \in 1..Len(poly)}
Ys(poly) == {poly[i][2] : i \in 1..Len(poly)}

Centre(poly) ==
    Point((MinOf(Xs(poly)) + MaxOf(Xs(poly))) \div 2,
          (MinOf(Ys(poly)) + MaxOf(Ys(poly))) \div 2)

----------------------------------------------------------------------------
(* Constraints enforced by the storage engine *)

\* Stadium.slug unique=True (cric.py only; models.py has no slug)
StadiumUnique(sch, d, row) ==
    sch = CRIC => \A s \in d.Stadium : s.slug # row.slug

\* StadiumFeature unique_together (stadium, key)
StadiumFeatureUnique(d, row) ==
    \A f \in d.StadiumFeature : ~(f.stadium = row.stadium /\ f.key = row.key)

\* Mutation: uid unique only among the devices of one pitch
SensorDeviceUnique_PerPitch(d, row) ==
    \A s \in d.SensorDevice : ~(s.uid = row.uid /\ s.pitch = row.pitch)

\* SensorDevice.uid unique=True
SensorDeviceUnique(d, row) ==
    \A s \in d.SensorDevice : s.uid # row.uid

\* Inning unique_together (match, number)
InningUnique(d, row) ==
    \A i \in d.Inning : ~(i.match = row.match /\ i.number = row.number)

\* Over unique_together (inning, number)
OverUnique(d, row) ==
    \A o \in d.Over : ~(o.inning = row.inning /\ o.number = row.number)

\* PitchMetric unique_together (pitch, date)
PitchMetricUnique(d, row) ==
    \A m \in d.PitchMetric : ~(m.pitch = row.pitch /\ m.date = row.date)

\* A required foreign key names a stored row of table t.
Fk(d, t, id) == id \in Ids(d[t])

\* A null=True foreign key is NULL or names a stored row of table t.
FkNull(d, t, id) == id = NULL \/ id \in Ids(d[t])

----------------------------------------------------------------------------
(* on_delete rules: what deleting a set of rows collects *)

SetNull(rows, field, gone) ==
    {[r EXCEPT ![field] = IF @ \in gone THEN NULL ELSE @] : r \in rows}

Cascade(rows, field, gone) == {r \in rows : r[field] \notin gone}

Drop(rows, gone) == {r \in rows : r.id \notin gone}

Referring(rows, field, gone) == {r.id : r \in {x \in rows : x[field] \in gone}}

\* Mutation: PitchAnalysis.snapshot with on_delete=DO_NOTHING
DeleteSnapshots_DoNothing(d, S) ==
    [d EXCEPT !.PitchSnapshot = Drop(@, S)]

DeleteSnapshots(d, S) ==
    [d EXCEPT !.PitchSnapshot = Drop(@, S),
              !.PitchAnalysis = Cascade(@, "snapshot", S)]

\* Mutation: SensorReading.device with on_delete=DO_NOTHING
DeleteDevices_DoNothing(d, D) ==
    [d EXCEPT !.SensorDevice = Drop(@, D)]

DeleteDevices(d, D) ==
    [d EXCEPT !.SensorDevice = Drop(@, D),
              !.SensorReading = Cascade(@, "device", D)]

\* Mutation: SensorDevice.pitch with on_delete=CASCADE
DeletePitches_CascadeDevice(d, P) ==
    LET d1 == DeleteSnapshots(d, Referring(d.PitchSnapshot, "pitch", P))
        d2 == DeleteDevices(d1, Referring(d.SensorDevice, "pitch", P))
    IN  [d2 EXCEPT !.Pitch = Drop(@, P),
                   !.SoilSample = Cascade(@, "pitch", P),
                   !.SatelliteImage = Cascade(@, "pitch", P),
                   !.CameraImage = Cascade(@, "pitch", P),
                   !.PitchMetric = Cascade(@, "pitch", P),
                   !.Match = SetNull(@, "pitch", P)]

DeletePitches(d, P) ==
    LET d1 == DeleteSnapshots(d, Referring(d.PitchSnapshot, "pitch", P))
    IN  [d1 EXCEPT !.Pitch = Drop(@, P),
                   !.SoilSample = Cascade(@, "pitch", P),
                   !.SatelliteImage = Cascade(@, "pitch", P),
                   !.CameraImage = Cascade(@, "pitch", P),
                   !.PitchMetric = Cascade(@, "pitch", P),
                   !.SensorDevice = SetNull(@, "pitch", P),
                   !.Match = SetNull(@, "pitch", P)]

\* Mutation: Match.stadium with on_delete=CASCADE
DeleteStadiums_CascadeMatch(d, X) ==
    LET d1 == DeletePitches(d, Referring(d.Pitch, "stadium", X))
    IN  [d1 EXCEPT !.Stadium = Drop(@, X),
                   !.StadiumFeature = Cascade(@, "stadium", X),
                   !.Match = Cascade(@, "stadium", X)]

DeleteStadiums(d, X) ==
    LET d1 == DeletePitches(d, Referring(d.Pitch, "stadium", X))
    IN  [d1 EXCEPT !.Stadium = Drop(@, X),
                   !.StadiumFeature = Cascade(@, "stadium", X),
                   !.Match = SetNull(@, "stadium", X)]

DeleteOvers(d, O) ==
    [d EXCEPT !.Over = Drop(@, O),
              !.Delivery = Cascade(@, "over", O)]

DeleteInnings(d, I) ==
    LET d1 == DeleteOvers(d, Referring(d.Over, "inning", I))
    IN  [d1 EXCEPT !.Inning = Drop(@, I)]

DeleteMatches(d, M) ==
    LET d1 == DeleteInnings(d, Referring(d.Inning, "match", M))
    IN  [d1 EXCEPT !.Match = Drop(@, M),
                   !.Match_teams = Cascade(@, "match", M),
                   !.PlayerTrackPoint = Cascade(@, "match", M)]

DeleteTeams(d, T) ==
    [d EXCEPT !.Team = Drop(@, T),
              !.Match_teams = Cascade(@, "team", T),
              !.Player = SetNull(@, "team", T),
              !.Inning = SetNull(SetNull(@, "batting_team", T),
                                 "bowling_team", T)]

DeletePlayers(d, P) ==
    [d EXCEPT !.Player = Drop(@, P),
              !.PlayerTrackPoint = Cascade(@, "player", P),
              !.Over = SetNull(@, "bowler", P),
              !.Delivery = SetNull(SetNull(@, "batsman", P), "bowler", P)]

Collect(d, t, id) ==
    CASE t = "Stadium" -> DeleteStadiums(d, {id})
      [] t = "Pitch" -> DeletePitches(d, {id})
      [] t = "PitchSnapshot" -> DeleteSnapshots(d, {id})
      [] t = "SensorDevice" -> DeleteDevices(d, {id})
      [] t = "Team" -> DeleteTeams(d, {id})
      [] t = "Player" -> DeletePlayers(d, {id})
      [] t = "Match" -> DeleteMatches(d, {id})
      [] t = "Inning" -> DeleteInnings(d, {id})
      [] t = "Over" -> DeleteOvers(d, {id})
      [] OTHER -> [d EXCEPT ![t] = Drop(@, {id})]

----------------------------------------------------------------------------
(* Direct inserts and deletes (admin interface, external ingestion) *)

Outcome(status, t, detail, before) ==
    [status |-> status, table |-> t, detail |-> detail, before |-> before]

\* The engine checks the unique indexes when the row is written and the
\* foreign keys at the end of the statement.
Attempt(t, row, fk, unique, constraint) ==
    /\ ops < MaxOps
    /\ CASE ~unique ->
              /\ result' = Outcome("IntegrityError", t, constraint, NULL)
              /\ UNCHANGED <<db, nextId, ops>>
         [] unique /\ ~fk ->
              /\ result' = Outcome("IntegrityError", "", "foreign key", NULL)
              /\ UNCHANGED <<db, nextId, ops>>
         [] OTHER ->
              /\ db' = Insert(db, t, row)
              /\ nextId' = nextId + 1
              /\ ops' = ops + 1
              /\ result' = Outcome("ok", t, row.id, NULL)
    /\ UNCHANGED <<schema, seedVars>>

InsertStadium(name, slug, country, location) ==
    LET row == [id |-> nextId, name |-> name,
                slug |-> IF schema = CRIC THEN slug ELSE NoField,
                country |-> country, location |-> location]
    IN  Attempt("Stadium", row, TRUE, StadiumUnique(schema, db, row), "slug")

InsertPitch(stadium, name, area, centroid) ==
    LET row == [id |-> nextId, stadium |-> stadium, name |-> name,
                area |-> area, centroid |-> centroid]
    IN  Attempt("Pitch", row, Fk(db, "Stadium", stadium), TRUE, "")

InsertStadiumFeature(stadium, key) ==
    LET row == [id |-> nextId, stadium |-> stadium, key |-> key]
    IN  /\ schema = CRIC
        /\ Attempt("StadiumFeature", row,
                   Fk(db, "Stadium", stadium),
                   StadiumFeatureUnique(db, row), "(stadium, key)")

InsertPitchSnapshot(pitch) ==
    /\ schema = CRIC
    /\ Attempt("PitchSnapshot", [id |-> nextId, pitch |-> pitch],
               Fk(db, "Pitch", pitch), TRUE, "")

InsertSoilSample(pitch) ==
    /\ schema = CRIC
    /\ Attempt("SoilSample", [id |-> nextId, pitch |-> pitch],
               Fk(db, "Pitch", pitch), TRUE, "")

InsertSensorDevice(uid, pitch) ==
    LET row == [id |-> nextId, uid |-> uid, pitch |-> pitch]
    IN  /\ schema = CRIC
        /\ Attempt("SensorDevice", row,
                   FkNull(db, "Pitch", pitch),
                   SensorDeviceUnique(db, row), "uid")

InsertSensorReading(device) ==
    /\ schema = CRIC
    /\ Attempt("SensorReading", [id |-> nextId, device |-> device],
               Fk(db, "SensorDevice", device), TRUE, "")

InsertSatelliteImage(pitch) ==
    /\ schema = CRIC
    /\ Attempt("SatelliteImage", [id |-> nextId, pitch |-> pitch],
               FkNull(db, "Pitch", pitch), TRUE, "")

InsertCameraImage(pitch) ==
    /\ schema = CRIC
    /\ Attempt("CameraImage", [id |-> nextId, pitch |-> pitch],
               FkNull(db, "Pitch", pitch), TRUE, "")

InsertTeam ==
    /\ schema = CRIC
    /\ Attempt("Team", [id |-> nextId], TRUE, TRUE, "")

InsertPlayer(team) ==
    /\ schema = CRIC
    /\ Attempt("Player", [id |-> nextId, team |-> team],
               FkNull(db, "Team", team), TRUE, "")

InsertMatch(pitch, stadium) ==
    /\ schema = CRIC
    /\ Attempt("Match", [id |-> nextId, pitch |-> pitch, stadium |-> stadium],
               FkNull(db, "Pitch", pitch) /\ FkNull(db, "Stadium", stadium),
               TRUE, "")

\* Match.teams.add(team): a row of the many-to-many through table
InsertMatchTeam(match, team) ==
    /\ schema = CRIC
    /\ Attempt("Match_teams", [id |-> nextId, match |-> match, team |-> team],
               Fk(db, "Match", match) /\ Fk(db, "Team", team), TRUE, "")

InsertInning(match, number, batting_team, bowling_team) ==
    LET row == [id |-> nextId, match |-> match, number |-> number,
                batting_team |-> batting_team, bowling_team |-> bowling_team]
    IN  /\ schema = CRIC
        /\ Attempt("Inning", row,
                   /\ Fk(db, "Match", match)
                   /\ FkNull(db, "Team", batting_team)
                   /\ FkNull(db, "Team", bowling_team),
                   InningUnique(db, row), "(match, number)")

InsertOver(inning, number, bowler) ==
    LET row == [id |-> nextId, inning |-> inning, number |-> number,
                bowler |-> bowler]
    IN  /\ schema = CRIC
        /\ Attempt("Over", row,
                   /\ Fk(db, "Inning", inning)
                   /\ FkNull(db, "Player", bowler),
                   OverUnique(db, row), "(inning, number)")

InsertDelivery(over, batsman, bowler) ==
    /\ schema = CRIC
    /\ Attempt("Delivery",
               [id |-> nextId, over |-> over, batsman |-> batsman,
                bowler |-> bowler],
               /\ Fk(db, "Over", over)
               /\ FkNull(db, "Player", batsman)
               /\ FkNull(db, "Player", bowler),
               TRUE, "")

InsertPlayerTrackPoint(match, player) ==
    /\ schema = CRIC
    /\ Attempt("PlayerTrackPoint",
               [id |-> nextId, match |-> match, player |-> player],
               Fk(db, "Match", match) /\ Fk(db, "Player", player), TRUE, "")

InsertPitchMetric(pitch, date) ==
    LET row == [id |-> nextId, pitch |-> pitch, date |-> date]
    IN  /\ schema = CRIC
        /\ Attempt("PitchMetric", row,
                   Fk(db, "Pitch", pitch),
                   PitchMetricUnique(db, row), "(pitch, date)")

InsertPitchAnalysis(snapshot) ==
    /\ schema = CRIC
    /\ Attempt("PitchAnalysis", [id |-> nextId, snapshot |-> snapshot],
               Fk(db, "PitchSnapshot", snapshot), TRUE, "")

Delete(t, id) ==
    /\ id \in Ids(db[t])
    /\ db' = Collect(db, t, id)
    /\ result' = Outcome("deleted", t, id, db)
    /\ UNCHANGED <<schema, nextId, ops, seedVars>>

DeleteStadium(id) == Delete("Stadium", id)

DeletePitch(id) == Delete("Pitch", id)

DeleteSensorDevice(id) == Delete("SensorDevice", id)

----------------------------------------------------------------------------
(* seed_stadiums: Command.handle *)

\* coords are (lat, lon)
stadiums_data ==
    << [name |-> "Lord's Cricket Ground", country |-> "England",
        coords |-> <<515281, -1720>>],
       [name |-> "Melbourne Cricket Ground", country |-> "Australia",
        coords |-> <<-378199, 1449834>>],
       [name |-> "Eden Park", country |-> "New Zealand",
        coords |-> <<-368485, 1747670>>],
       [name |-> "The Oval", country |-> "England",
        coords |-> <<514826, -1122>>],
       [name |-> "SCG - Sydney Cricket Ground", country |-> "Australia",
        coords |-> <<-338912, 1512241>>],
       [name |-> "Wellington Regional Stadium", country |-> "New Zealand",
        coords |-> <<-413048, 1747815>>],
       [name |-> "Old Trafford Cricket Ground", country |-> "England",
        coords |-> <<534560, -22910>>],
       [name |-> "Kensington Oval", country |-> "Barbados",
        coords |-> <<130936, -596100>>],
       [name |-> "Queen's Park Oval", country |-> "Trinidad & Tobago",
        coords |-> <<106541, -615168>>],
       [name |-> "Newlands", country |-> "South Africa",
        coords |-> <<-339460, 184647>>] >>

delta == 3

\* Field names Pitch(...) accepts as keyword arguments
PitchFields(sch) ==
    IF sch = CRIC
    THEN {"stadium", "name", "area", "centroid", "length_m", "width_m",
          "surface_type", "preferred_usage"}
    ELSE {"stadium", "name", "area", "centroid", "surface_type",
          "current_condition"}

PitchKwargs ==
    {"stadium", "name", "area", "centroid", "surface_type",
     "current_condition"}

\* Mutation: the point built as (lat, lon)
SeedStadium_LatLon(sch, id, data) ==
    [id |-> id, name |-> data.name, slug |-> DefaultSlug(sch),
     country |-> data.country,
     location |-> Point(data.coords[1], data.coords[2])]

\* defaults={"country": ..., "location": Point(coords[1], coords[0])}
SeedStadium(sch, id, data) ==
    [id |-> id, name |-> data.name, slug |-> DefaultSlug(sch),
     country |-> data.country,
     location |-> Point(data.coords[2], data.coords[1])]

SeedPolygon(data) ==
    LET lat == data.coords[1]
        lon == data.coords[2]
    IN  Polygon(<< <<lon - delta, lat - delta>>,
                   <<lon - delta, lat + delta>>,
                   <<lon + delta, lat + delta>>,
                   <<lon + delta, lat - delta>>,
                   <<lon - delta, lat - delta>> >>)

SeedPitch(id, stadium, data) ==
    [id |-> id, stadium |-> stadium.id, name |-> "Main Pitch",
     area |-> SeedPolygon(data), centroid |-> stadium.location]

Running == Len(log)

Note(field, x) == [log EXCEPT ![Running][field] = @ \cup {x}]

Ended(l, how) == [l EXCEPT ![Running].outcome = how]

\* an exception leaves handle(); nothing is rolled back
Raise(e) ==
    /\ pc' = "idle"
    /\ log' = Ended(log, e)
    /\ UNCHANGED <<db, nextId, idx, cur, stdout>>

\* the end of one iteration of "for data in stadiums_data"
NextVenue(l) ==
    IF idx = Len(stadiums_data)
    THEN /\ pc' = "idle"
         /\ log' = Ended(l, "ok")
         /\ idx' = idx
    ELSE /\ pc' = "get_or_create"
         /\ log' = l
         /\ idx' = idx + 1

StartSeed ==
    /\ pc = "idle"
    /\ Len(log) < MaxRuns
    /\ pc' = "get_or_create"
    /\ idx' = 1
    /\ cur' = NULL
    /\ stdout' = <<>>
    /\ log' = Append(log, [outcome |-> "running", stadiums |-> {},
                           pitches |-> {}, skipped |-> {}])
    /\ UNCHANGED <<schema, db, nextId, ops, result>>

\* Mutation: "if created" dropped, the pitch is created for a found stadium too
GetOrCreate_IgnoreCreated ==
    /\ pc = "get_or_create"
    /\ LET data == stadiums_data[idx]
           found == {s \in db.Stadium : s.name = data.name}
           row == SeedStadium(schema, nextId, data)
       IN  CASE Cardinality(found) = 1 ->
                  /\ cur' = CHOOSE s \in found : TRUE
                  /\ pc' = "create_pitch"
                  /\ log' = Note("skipped", idx)
                  /\ UNCHANGED <<db, nextId, idx, stdout>>
             [] Cardinality(found) > 1 -> Raise("MultipleObjectsReturned")
             [] found = {} /\ StadiumUnique(schema, db, row) ->
                  /\ db' = Insert(db, "Stadium", row)
                  /\ nextId' = nextId + 1
                  /\ cur' = row
                  /\ pc' = "create_pitch"
                  /\ log' = Note("stadiums", row.id)
                  /\ UNCHANGED <<idx, stdout>>
             [] OTHER -> Raise("IntegrityError")
    /\ UNCHANGED <<schema, ops, result>>

\* Stadium.objects.get_or_create(name=..., defaults=...)
GetOrCreate ==
    /\ pc = "get_or_create"
    /\ LET data == stadiums_data[idx]
           found == {s \in db.Stadium : s.name = data.name}
           row == SeedStadium(schema, nextId, data)
       IN  CASE Cardinality(found) = 1 ->
                  /\ stdout' = Append(stdout, <<"Stadium already exists", data.name>>)
                  /\ cur' = CHOOSE s \in found : TRUE
                  /\ NextVenue(Note("skipped", idx))
                  /\ UNCHANGED <<db, nextId>>
             [] Cardinality(found) > 1 -> Raise("MultipleObjectsReturned")
             [] found = {} /\ StadiumUnique(schema, db, row) ->
                  /\ db' = Insert(db, "Stadium", row)
                  /\ nextId' = nextId + 1
                  /\ cur' = row
                  /\ pc' = "create_pitch"
                  /\ log' = Note("stadiums", row.id)
                  /\ UNCHANGED <<idx, stdout>>
             [] OTHER -> Raise("IntegrityError")
    /\ UNCHANGED <<schema, ops, result>>

\* Pitch.objects.create(...) and the success message
CreatePitch ==
    /\ pc = "create_pitch"
    /\ LET data == stadiums_data[idx]
           row == SeedPitch(nextId, cur, data)
       IN  CASE ~(PitchKwargs \subseteq PitchFields(schema)) -> Raise("TypeError")
             [] ~Fk(db, "Stadium", row.stadium) -> Raise("IntegrityError")
             [] OTHER ->
                  /\ db' = Insert(db, "Pitch", row)
                  /\ nextId' = nextId + 1
                  /\ stdout' = Append(stdout, <<"Created stadium and pitch", cur.name>>)
                  /\ cur' = cur
                  /\ NextVenue(Note("pitches", row.id))
    /\ UNCHANGED <<schema, ops, result>>

\* the process is stopped while handle() runs
Interrupt ==
    /\ pc # "idle"
    /\ Raise("KeyboardInterrupt")
    /\ UNCHANGED <<schema, ops, result>>

----------------------------------------------------------------------------
(* Specifications *)

Init ==
    /\ schema \in {LEGACY, CRIC}
    /\ db = EmptyDb
    /\ nextId = 1
    /\ ops = 0
    /\ result = Outcome("ok", "", NULL, NULL)
    /\ pc = "idle"
    /\ idx = 1
    /\ cur = NULL
    /\ stdout = <<>>
    /\ log = <<>>

Next ==
    \/ StartSeed
    \/ GetOrCreate
    \/ CreatePitch
    \/ Interrupt

\* The seed command alone, on a database nobody else writes to.
Spec == Init /\ [][Next]_vars

\* Values a caller may pass as a foreign key to table t: NULL, the key of
\* every stored row of t, and one key that names no row of any table.
Refs(t) == Ids(db[t]) \cup {NULL, nextId}

Numbers == 1..MaxKey

Slugs == {"", "lords"}

Uids == {"dev-a", "dev-b"}

FeatureKeys == {"soil_type", "drainage"}

DbInit == Init /\ schema = CRIC

AddStadium ==
    \E slug \in Slugs : InsertStadium("Lord's Cricket Ground", slug, "England", NULL)

\* The admin form: a stadium under the name of the second venue.
AdminAddStadium ==
    \E slug \in Slugs :
        /\ ops < MaxAdminOps
        /\ InsertStadium(stadiums_data[2].name, slug, "Wales", NULL)

\* The admin form: a second pitch for a stadium of the first two venues.
AdminAddPitch ==
    \E s \in Ids({x \in db.Stadium :
                    x.name \in {stadiums_data[1].name, stadiums_data[2].name}}) :
        /\ ops < MaxAdminOps
        /\ InsertPitch(s, "Practice", NULL, NULL)

AddPitch == \E s \in Refs("Stadium") : InsertPitch(s, "Main", NULL, NULL)

AddStadiumFeature ==
    \E s \in Refs("Stadium"), k \in FeatureKeys : InsertStadiumFeature(s, k)

AddPitchSnapshot == \E p \in Refs("Pitch") : InsertPitchSnapshot(p)

AddSoilSample == \E p \in Refs("Pitch") : InsertSoilSample(p)

AddSensorDevice ==
    \E u \in Uids, p \in Refs("Pitch") : InsertSensorDevice(u, p)

AddSensorReading == \E d \in Refs("SensorDevice") : InsertSensorReading(d)

AddSatelliteImage == \E p \in Refs("Pitch") : InsertSatelliteImage(p)

AddCameraImage == \E p \in Refs("Pitch") : InsertCameraImage(p)

AddPlayer == \E t \in Refs("Team") : InsertPlayer(t)

AddMatch ==
    \E p \in Refs("Pitch"), s \in Refs("Stadium") : InsertMatch(p, s)

AddMatchTeam ==
    \E m \in Refs("Match"), t \in Refs("Team") : InsertMatchTeam(m, t)

AddInning ==
    \E m \in Refs("Match"), n \in Numbers, t \in Refs("Team") :
        InsertInning(m, n, t, t)

AddOver ==
    \E i \in Refs("Inning"), n \in Numbers, b \in Refs("Player") :
        InsertOver(i, n, b)

AddDelivery ==
    \E o \in Refs("Over"), b \in Refs("Player") : InsertDelivery(o, b, b)

AddPlayerTrackPoint ==
    \E m \in Refs("Match"), p \in Refs("Player") : InsertPlayerTrackPoint(m, p)

AddPitchMetric ==
    \E p \in Refs("Pitch"), n \in Numbers : InsertPitchMetric(p, n)

AddPitchAnalysis == \E sn \in Refs("PitchSnapshot") : InsertPitchAnalysis(sn)

DeleteFrom(T) == \E t \in T : \E id \in Ids(db[t]) : Delete(t, id)

\* The seed command on a database that the admin interface also writes to.
AdminNext ==
    \/ StartSeed
    \/ GetOrCreate
    \/ CreatePitch
    \/ AdminAddStadium
    \/ AdminAddPitch

AdminSpec == Init /\ [][AdminNext]_vars

\* Insert attempts on the tables that carry a uniqueness constraint, and on
\* the tables their rows must refer to.
UniqueNext ==
    \/ AddStadium
    \/ AddStadiumFeature
    \/ AddPitch
    \/ AddPitchMetric
    \/ AddSensorDevice
    \/ AddMatch
    \/ AddInning
    \/ AddOver
    \/ InsertTeam
    \/ AddPlayer

UniqueSpec == DbInit /\ [][UniqueNext]_vars

\* Stadiums, pitches, sensor devices and everything that refers to them.
CascadeNext ==
    \/ AddStadium
    \/ AddStadiumFeature
    \/ AddPitch
    \/ AddPitchSnapshot
    \/ AddPitchAnalysis
    \/ AddSoilSample
    \/ AddSatelliteImage
    \/ AddCameraImage
    \/ AddPitchMetric
    \/ AddSensorDevice
    \/ AddSensorReading
    \/ AddMatch
    \/ \E id \in Ids(db.Stadium) : DeleteStadium(id)
    \/ \E id \in Ids(db.Pitch) : DeletePitch(id)
    \/ \E id \in Ids(db.SensorDevice) : DeleteSensorDevice(id)

CascadeSpec == DbInit /\ [][CascadeNext]_vars

RefTables ==
    {"Stadium", "Pitch", "PitchSnapshot", "PitchAnalysis", "SensorDevice",
     "SensorReading", "Team", "Player", "Match", "Match_teams", "Inning",
     "Over", "Delivery", "PlayerTrackPoint"}

\* Inserts and deletes over the match and pitch-monitoring tables.
RefNext ==
    \/ AddStadium
    \/ AddPitch
    \/ AddPitchSnapshot
    \/ AddPitchAnalysis
    \/ AddSensorDevice
    \/ AddSensorReading
    \/ InsertTeam
    \/ AddPlayer
    \/ AddMatch
    \/ AddMatchTeam
    \/ AddInning
    \/ AddOver
    \/ AddDelivery
    \/ AddPlayerTrackPoint
    \/ DeleteFrom(RefTables)

RefSpec == DbInit /\ [][RefNext]_vars

----------------------------------------------------------------------------
(* Properties of the seed command *)

\* Stadiums inserted by any seed run so far
Seeded == UNION {log[k].stadiums : k \in 1..Len(log)}

PitchesOf(d, s) == {p \in d.Pitch : p.stadium = s}

Uninterrupted == \A k \in 1..Len(log) : log[k].outcome # "KeyboardInterrupt"

AllCompleted == \A k \in 1..Len(log) : log[k].outcome = "ok"

Corners(point) ==
    {<<point[1] + dx, point[2] + dy>> : dx \in {-delta, delta}, dy \in {-delta, delta}}

\* C1: from an empty database, two seed runs in sequence leave exactly ten
\* Stadium rows and ten Pitch rows, and the second run inserts nothing.
C1_SeedTwice ==
    (pc = "idle" /\ Len(log) = 2 /\ Uninterrupted)
        => /\ Cardinality(db.Stadium) = 10
           /\ Cardinality(db.Pitch) = 10
           /\ log[2].stadiums = {}
           /\ log[2].pitches = {}

\* C2: after any number of completed seed runs from an empty database, every
\* seeded Stadium has exactly one Pitch; it is named "Main Pitch", its area is
\* a closed ring over the four distinct corners (lon +- delta, lat +- delta),
\* the centre of the area is the stadium's location and so is its centroid.
C2_MainPitch ==
    (pc = "idle" /\ Len(log) >= 1 /\ AllCompleted)
        => \A s \in db.Stadium :
             s.id \in Seeded =>
               /\ Cardinality(PitchesOf(db, s.id)) = 1
               /\ \A p \in PitchesOf(db, s.id) :
                    /\ p.name = "Main Pitch"
                    /\ Len(p.area) = 5
                    /\ p.area[1] = p.area[5]
                    /\ {p.area[i] : i \in 1..4} = Corners(s.location)
                    /\ Cardinality({p.area[i] : i \in 1..4}) = 4
                    /\ Centre(p.area) = s.location
                    /\ p.centroid = s.location
                    /\ \E i \in 1..Len(stadiums_data) :
                         /\ stadiums_data[i].name = s.name
                         /\ s.location = <<stadiums_data[i].coords[2],
                                           stadiums_data[i].coords[1]>>

C2_Witness ==
    /\ pc = "idle"
    /\ Len(log) = 2
    /\ AllCompleted
    /\ Cardinality(Seeded) = 10
    /\ Seeded \subseteq Ids(db.Stadium)

\* C3: no seeded Stadium is left without a Pitch: once the iteration that
\* inserted it is over, however it ended, the Stadium has its Pitch.
C3_BothOrNothing ==
    \A s \in db.Stadium :
        (s.id \in Seeded /\ ~(pc = "create_pitch" /\ cur.id = s.id))
            => PitchesOf(db, s.id) # {}

\* C4: no seed run, started from the empty database or from what an earlier
\* run left, ends in a uniqueness violation.
C4_NoDuplicateKey ==
    \A k \in 1..Len(log) : log[k].outcome # "IntegrityError"

SeedStep == seedVars' # seedVars

\* C9: when the seed reaches a venue whose name a stored Stadium already has,
\* whoever stored it, that step changes no table (no Stadium, no Pitch, no
\* field of the stored row, even if it has no pitch); and the seed inserts a
\* Pitch only for the Stadium that the same iteration of the same run inserted.
C9_ExistingUntouched ==
    [][SeedStep =>
        /\ (pc = "get_or_create"
              /\ \E s \in db.Stadium : s.name = stadiums_data[idx].name)
             => db' = db
        /\ \A p \in db'.Pitch \ db.Pitch :
             /\ pc = "create_pitch"
             /\ p.stadium = cur.id
             /\ cur.id \in log[Running].stadiums
             /\ cur.name = stadiums_data[idx].name
             /\ cur \in db.Stadium
             /\ db'.Pitch = db.Pitch \cup {p}
             /\ db'.Stadium = db.Stadium]_vars

C9_Witness ==
    /\ Len(log) >= 1
    /\ 2 \in log[Len(log)].skipped
    /\ \E s \in db.Stadium :
         /\ s.name = stadiums_data[2].name
         /\ s.id \notin Seeded
         /\ s.country # stadiums_data[2].country
         /\ PitchesOf(db, s.id) = {}
         /\ \A x \in db.Stadium : x.name = s.name => x = s

----------------------------------------------------------------------------
(* Properties of the schema *)

NoTwo(rows, Same(_, _)) == \A a \in rows, b \in rows : a # b => ~Same(a, b)

SameSlug(a, b) == a.slug = b.slug
SameFeature(a, b) == a.stadium = b.stadium /\ a.key = b.key
SameInning(a, b) == a.match = b.match /\ a.number = b.number
SameOver(a, b) == a.inning = b.inning /\ a.number = b.number
SameMetric(a, b) == a.pitch = b.pitch /\ a.date = b.date
SameUid(a, b) == a.uid = b.uid
SameId(a, b) == a.id = b.id

UniqueInv ==
    /\ NoTwo(db.Stadium, SameSlug)
    /\ NoTwo(db.StadiumFeature, SameFeature)
    /\ NoTwo(db.Inning, SameInning)
    /\ NoTwo(db.Over, SameOver)
    /\ NoTwo(db.PitchMetric, SameMetric)
    /\ NoTwo(db.SensorDevice, SameUid)

\* C5: no two Stadiums share a slug, no two StadiumFeatures a (stadium, key),
\* no two Innings a (match, number), no two Overs an (inning, number), no two
\* PitchMetrics a (pitch, date), no two SensorDevices a uid; and an insert
\* that ends in an IntegrityError leaves every table as it was.
C5_Unique ==
    /\ []UniqueInv
    /\ [][result'.status = "IntegrityError" => db' = db]_vars

C5_Witness ==
    /\ result.status = "IntegrityError"
    /\ result.table = "Over"
    /\ result.detail = "(inning, number)"
    /\ \E o \in db.Over : \E i \in db.Inning : o.inning = i.id

Before == result.before

Deleted(t) == result.status = "deleted" /\ result.table = t

\* rows with the reference to row id of the parent table replaced by NULL
Nulled(rows, field, id) ==
    {[r EXCEPT ![field] = IF r[field] = id THEN NULL ELSE r[field]] : r \in rows}

Without(rows, field, id) == {r \in rows : r[field] # id}

\* C6: a stored Stadium can always be deleted; the delete removes it, every
\* Pitch and StadiumFeature that refers to it and nothing else from these
\* tables, and keeps every Match, with a null stadium where it referred to it.
C6_DeleteStadium ==
    /\ \A s \in Ids(db.Stadium) : ENABLED DeleteStadium(s)
    /\ Deleted("Stadium") =>
         /\ db.Stadium = Without(Before.Stadium, "id", result.detail)
         /\ db.Pitch = Without(Before.Pitch, "stadium", result.detail)
         /\ db.StadiumFeature =
               Without(Before.StadiumFeature, "stadium", result.detail)
         /\ Ids(db.Match) = Ids(Before.Match)
         /\ NoTwo(db.Match, SameId)
         /\ \A m \in Before.Match : \E n \in db.Match :
               /\ n.id = m.id
               /\ n.stadium = IF m.stadium = result.detail THEN NULL ELSE m.stadium

C6_Witness ==
    /\ Deleted("Stadium")
    /\ \E p \in Before.Pitch : p.stadium = result.detail
    /\ \E f \in Before.StadiumFeature : f.stadium = result.detail
    /\ \E m \in Before.Match : m.stadium = result.detail
    /\ \E m \in db.Match : m.stadium = NULL

\* C7: deleting a Pitch removes every PitchSnapshot, SoilSample,
\* SatelliteImage, CameraImage and PitchMetric that refers to it and no other;
\* every SensorDevice and Match stays, with a null pitch where it referred to
\* it; every SensorReading stays.
C7_DeletePitch ==
    Deleted("Pitch") =>
        /\ db.Pitch = Without(Before.Pitch, "id", result.detail)
        /\ db.PitchSnapshot = Without(Before.PitchSnapshot, "pitch", result.detail)
        /\ db.SoilSample = Without(Before.SoilSample, "pitch", result.detail)
        /\ db.SatelliteImage = Without(Before.SatelliteImage, "pitch", result.detail)
        /\ db.CameraImage = Without(Before.CameraImage, "pitch", result.detail)
        /\ db.PitchMetric = Without(Before.PitchMetric, "pitch", result.detail)
        /\ db.SensorDevice = Nulled(Before.SensorDevice, "pitch", result.detail)
        /\ db.Match = Nulled(Before.Match, "pitch", result.detail)
        /\ db.SensorReading = Before.SensorReading

C7_Witness ==
    /\ Deleted("Pitch")
    /\ \E d \in Before.SensorDevice :
         /\ d.pitch = result.detail
         /\ \E r \in db.SensorReading : r.device = d.id
         /\ \E e \in db.SensorDevice : e.id = d.id /\ e.pitch = NULL

\* C8: deleting a SensorDevice removes it and every SensorReading that refers
\* to it, and changes no other row of any table.
C8_DeleteSensorDevice ==
    Deleted("SensorDevice") =>
        /\ db.SensorDevice = Without(Before.SensorDevice, "id", result.detail)
        /\ db.SensorReading = Without(Before.SensorReading, "device", result.detail)
        /\ \A t \in Tables \ {"SensorDevice", "SensorReading"} : db[t] = Before[t]

C8_Witness ==
    /\ Deleted("SensorDevice")
    /\ \E d \in Before.SensorDevice :
         /\ d.id = result.detail
         /\ d.pitch \in Ids(db.Pitch)
    /\ \E r \in Before.SensorReading : r.device = result.detail
    /\ db.SensorReading = {}

Refers(child, field, parent, nullable) ==
    \A r \in db[child] :
        \/ nullable /\ r[field] = NULL
        \/ r[field] \in Ids(db[parent])

RefInt ==
    /\ Refers("StadiumFeature", "stadium", "Stadium", FALSE)
    /\ Refers("Pitch", "stadium", "Stadium", FALSE)
    /\ Refers("PitchSnapshot", "pitch", "Pitch", FALSE)
    /\ Refers("SoilSample", "pitch", "Pitch", FALSE)
    /\ Refers("SensorDevice", "pitch", "Pitch", TRUE)
    /\ Refers("SensorReading", "device", "SensorDevice", FALSE)
    /\ Refers("SatelliteImage", "pitch", "Pitch", TRUE)
    /\ Refers("CameraImage", "pitch", "Pitch", TRUE)
    /\ Refers("Player", "team", "Team", TRUE)
    /\ Refers("Match", "pitch", "Pitch", TRUE)
    /\ Refers("Match", "stadium", "Stadium", TRUE)
    /\ Refers("Match_teams", "match", "Match", FALSE)
    /\ Refers("Match_teams", "team", "Team", FALSE)
    /\ Refers("Inning", "match", "Match", FALSE)
    /\ Refers("Inning", "batting_team", "Team", TRUE)
    /\ Refers("Inning", "bowling_team", "Team", TRUE)
    /\ Refers("Over", "inning", "Inning", FALSE)
    /\ Refers("Over", "bowler", "Player", TRUE)
    /\ Refers("Delivery", "over", "Over", FALSE)
    /\ Refers("Delivery", "batsman", "Player", TRUE)
    /\ Refers("Delivery", "bowler", "Player", TRUE)
    /\ Refers("PlayerTrackPoint", "match", "Match", FALSE)
    /\ Refers("PlayerTrackPoint", "player", "Player", FALSE)
    /\ Refers("PitchMetric", "pitch", "Pitch", FALSE)
    /\ Refers("PitchAnalysis", "snapshot", "PitchSnapshot", FALSE)

\* ids of the rows of table child that, before the delete, referred through
\* field to a row whose id is in gone
Under(child, field, gone) ==
    {r.id : r \in {x \in Before[child] : x[field] \in gone}}

Kept(t, gone) == Ids(db[t]) = Ids(Before[t]) \ gone

====
